---- MODULE Spec2Model ----
(***************************************************************************)
(* A model of smtp_echo: the SMTP session callbacks (internal/echo/        *)
(* server.go), the Replier.Echo pipeline and the direct delivery engine    *)
(* Replier.deliverDirect (internal/echo/replier.go).                       *)
(*                                                                         *)
(* Go strings that the code inspects character by character (addresses,    *)
(* host names, subjects) are sequences of one-character strings.  Message  *)
(* identifiers and error kinds, which the code only copies and compares,   *)
(* are TLA+ strings.                                                       *)
(***************************************************************************)
EXTENDS Integers, Sequences, FiniteSets, TLC

VARIABLES
    \* ---- session state (server.go) ----
    sessions,       \* connection -> its session: [open, envelopeFrom, recipients,
                    \* storage], storage being the array behind recipients
    lastData,       \* the most recent Data call: the session it saw, the
                    \* messages it handed to Processor.Echo, what it returned
    shutdown,       \* whether the server is shutting down (run's signal)
    calls,          \* connection -> the callbacks its session received since
                    \* (and with) the most recent Mail or Reset, in order
    \* ---- Replier.Echo (replier.go) ----
    pc,             \* position inside Echo
    cfg,            \* the Replier's identity (hostname, fromAddress, ..., dkim)
    msg,            \* the InboundMessage being processed
    recipient,      \* result of selectReplyRecipient
    body,           \* result of readReplyBody
    meta,           \* result of extractThreadMetadata
    replyMessage,   \* result of buildReplyMessage (and of signing)
    deliverCalls,   \* calls of r.deliverFn, in order: [to, message]
    echoResult,     \* what Echo returned: "pending", "nil" or an error kind
    \* ---- Replier.deliverDirect (replier.go) ----
    dpc,            \* position inside deliverDirect
    to,             \* the recipient argument
    domain,         \* addressDomain(parsedRecipient.Address)
    resolved,       \* what net.DefaultResolver.LookupMX returned (records)
    lookupErr,      \* whether LookupMX returned an error
    mxRecords,      \* mxRecords after sort.Slice
    targetHosts,    \* the ordered host list
    attemptErrors,  \* the recorded failure details
    hostIdx,        \* index of the next host of the range loop
    attempts,       \* sendToHost calls made, in order, with what each did
    ctxDone,        \* whether ctx has been cancelled
    deliverResult   \* what deliverDirect returned

sessionVars == <<sessions, lastData, shutdown, calls>>
echoVars    == <<pc, cfg, msg, recipient, body, meta, replyMessage,
                 deliverCalls, echoResult>>
deliverVars == <<dpc, to, domain, resolved, lookupErr, mxRecords, targetHosts,
                 attemptErrors, hostIdx, attempts, ctxDone, deliverResult>>
vars == <<sessionVars, echoVars, deliverVars>>

-----------------------------------------------------------------------------
(* Go's strings package, on sequences of characters *)

IsSpace(c) == c \in {" ", "\t", "\n", "\r"}

RECURSIVE TrimLeftSpace(_)
TrimLeftSpace(s) ==
    IF s # <<>> /\ IsSpace(Head(s)) THEN TrimLeftSpace(Tail(s)) ELSE s

RECURSIVE TrimRightSpace(_)
TrimRightSpace(s) ==
    IF s # <<>> /\ IsSpace(s[Len(s)])
    THEN TrimRightSpace(SubSeq(s, 1, Len(s) - 1)) ELSE s

TrimSpace(s) == TrimRightSpace(TrimLeftSpace(s))

HasPrefix(s, p) == Len(s) >= Len(p) /\ SubSeq(s, 1, Len(p)) = p

HasSuffix(s, p) ==
    Len(s) >= Len(p) /\ SubSeq(s, Len(s) - Len(p) + 1, Len(s)) = p

TrimPrefix(s, p) == IF HasPrefix(s, p) THEN SubSeq(s, Len(p) + 1, Len(s)) ELSE s

TrimSuffix(s, p) == IF HasSuffix(s, p) THEN SubSeq(s, 1, Len(s) - Len(p)) ELSE s

Count(s, c) == Cardinality({i \in 1..Len(s) : s[i] = c})

ContainsAny(s, set) == \E i \in 1..Len(s) : s[i] \in set

\* strings.LastIndex for a one-character separator, 0-based, -1 when absent
LastIndex(s, c) ==
    IF \E i \in 1..Len(s) : s[i] = c
    THEN (CHOOSE i \in 1..Len(s) : s[i] = c /\ \A j \in (i+1)..Len(s) : s[j] # c) - 1
    ELSE -1

LowerChar(c) ==
    CASE c = "R" -> "r"
      [] c = "E" -> "e"
      [] c = "H" -> "h"
      [] OTHER   -> c

ToLower(s) == [i \in 1..Len(s) |-> LowerChar(s[i])]

-----------------------------------------------------------------------------
(* mail.ParseAddress (go-message, which uses net/mail's address parser),   *)
(* for the characters the inputs below are written in: atoms, '@', '<',    *)
(* '>' and white space.                                                    *)

IsAtext(c) == ~IsSpace(c) /\ c \notin {"@", "<", ">"}

RECURSIVE skipSpace(_, _)
skipSpace(s, i) ==
    IF i <= Len(s) /\ s[i] \in {" ", "\t"} THEN skipSpace(s, i + 1) ELSE i

RECURSIVE consumeAtom(_, _)
consumeAtom(s, i) ==
    IF i <= Len(s) /\ IsAtext(s[i]) THEN consumeAtom(s, i + 1) ELSE i

Peek(s, i, c) == i <= Len(s) /\ s[i] = c

NoParse == [ok |-> FALSE, Address |-> <<>>, next |-> 0]

\* addr-spec = atom "@" atom, starting at i (white space skipped first)
consumeAddrSpec(s, i0) ==
    LET i == skipSpace(s, i0)
        a == consumeAtom(s, i)
    IN  IF a = i \/ ~Peek(s, a, "@") THEN NoParse
        ELSE LET d == skipSpace(s, a + 1)
                 e == consumeAtom(s, d)
             IN  IF e = d THEN NoParse
                 ELSE [ok |-> TRUE,
                       Address |-> SubSeq(s, i, a - 1) \o <<"@">> \o SubSeq(s, d, e - 1),
                       next |-> e]

\* phrase = 1*word; the index after the last word, or 0 when there is none
RECURSIVE consumeWords(_, _, _)
consumeWords(s, i0, n) ==
    LET i == skipSpace(s, i0)
        e == consumeAtom(s, i)
    IN  IF e = i THEN (IF n = 0 THEN 0 ELSE i)
        ELSE consumeWords(s, e, n + 1)

\* address = addr-spec / [phrase] "<" addr-spec ">"
parseAddress(s) ==
    LET i    == skipSpace(s, 1)
        spec == consumeAddrSpec(s, i)
    IN  IF i > Len(s) THEN NoParse
        ELSE IF spec.ok THEN spec
        ELSE LET p == IF Peek(s, i, "<") THEN i ELSE consumeWords(s, i, 0)
                 q == skipSpace(s, p)
             IN  IF p = 0 \/ ~Peek(s, q, "<") THEN NoParse
                 ELSE LET inner == consumeAddrSpec(s, q + 1)
                      IN  IF ~inner.ok \/ ~Peek(s, inner.next, ">") THEN NoParse
                          ELSE [inner EXCEPT !.next = inner.next + 1]

\* ParseAddress: one address and nothing after it
ParseAddress(s) ==
    LET r == parseAddress(s)
    IN  IF r.ok /\ skipSpace(s, r.next) > Len(s)
        THEN [ok |-> TRUE, Address |-> r.Address]
        ELSE [ok |-> FALSE, Address |-> <<>>]

-----------------------------------------------------------------------------
(* Replier.Echo: the pure steps *)

NoErr == ""

\* header.AddressList(key), header.MessageID(), header.MsgIDList(key) and
\* header.Subject() return what the decoded header holds for the key: an
\* error flag and a value.
AddressList(header, key) == header[key]

normalizeRecipientAddress(value) ==
    LET trimmed == TrimSuffix(TrimPrefix(TrimSpace(value), <<"<">>), <<">">>)
        parsedAddress == ParseAddress(trimmed)
    IN  IF trimmed = <<>> THEN <<>>
        ELSE IF parsedAddress.ok THEN parsedAddress.Address
        ELSE IF Count(trimmed, "@") = 1 /\ ~ContainsAny(trimmed, {" ", "\t"})
             THEN trimmed
        ELSE <<>>

\* the first address of the list whose Address is not empty, <<>> when none
RECURSIVE firstAddress(_)
firstAddress(addresses) ==
    IF addresses = <<>> THEN <<>>
    ELSE IF Head(addresses) # <<>> THEN Head(addresses)
    ELSE firstAddress(Tail(addresses))

RecipientHeaderKeysSwapped == <<"From", "Reply-To">>

RecipientHeaderKeys == <<"Reply-To", "From">>

RECURSIVE selectFromHeaders(_, _)
selectFromHeaders(header, keys) ==
    IF keys = <<>> THEN [err |-> "unable to determine reply recipient", value |-> <<>>]
    ELSE LET list == AddressList(header, Head(keys))
             found == IF list.err THEN <<>> ELSE firstAddress(list.addrs)
         IN  IF found # <<>> THEN [err |-> NoErr, value |-> found]
             ELSE selectFromHeaders(header, Tail(keys))

selectReplyRecipient(envelopeFrom, header) ==
    LET envelopeRecipient == normalizeRecipientAddress(envelopeFrom)
    IN  IF envelopeRecipient # <<>> THEN [err |-> NoErr, value |-> envelopeRecipient]
        ELSE selectFromHeaders(header, RecipientHeaderKeys)

containsString(values, target) == \E i \in 1..Len(values) : values[i] = target

extractThreadMetadataPrepending(header) ==
    LET messageID  == IF header["Message-ID"].err THEN "" ELSE header["Message-ID"].id
        references == IF header["References"].err THEN <<>> ELSE header["References"].ids
    IN  [Subject    |-> IF header["Subject"].err THEN <<>> ELSE header["Subject"].value,
         MessageID  |-> messageID,
         References |-> IF messageID # "" THEN <<messageID>> \o references
                        ELSE references]

extractThreadMetadata(header) ==
    LET messageID  == IF header["Message-ID"].err THEN "" ELSE header["Message-ID"].id
        references == IF header["References"].err THEN <<>> ELSE header["References"].ids
    IN  [Subject    |-> IF header["Subject"].err THEN <<>> ELSE header["Subject"].value,
         MessageID  |-> messageID,
         References |-> IF messageID # "" /\ ~containsString(references, messageID)
                        THEN Append(references, messageID)
                        ELSE references]

normalizeReplySubjectAlwaysPrefixing(subject) ==
    LET trimmed == TrimSpace(subject)
    IN  IF trimmed = <<>> THEN <<>>
        ELSE <<"R", "e", ":", " ">> \o trimmed

normalizeReplySubject(subject) ==
    LET trimmed == TrimSpace(subject)
    IN  IF trimmed = <<>> THEN <<>>
        ELSE IF HasPrefix(ToLower(trimmed), <<"r", "e", ":">>) THEN trimmed
        ELSE <<"R", "e", ":", " ">> \o trimmed

-----------------------------------------------------------------------------
(* readReplyBody *)

\* normalizeMediaType on the Content-Type header values the inputs use:
\* parameters dropped, lower-cased, white space trimmed
normalizeMediaType(contentType) ==
    CASE contentType = ""                              -> ""
      [] contentType = "text/plain; charset=\"UTF-8\"" -> "text/plain"
      [] contentType = "TEXT/HTML; charset=utf-8"      -> "text/html"
      [] contentType = "image/png"                     -> "image/png"
      [] contentType = "multipart/alternative; boundary=b" -> "multipart/alternative"
      [] OTHER                                         -> contentType

\* strings.HasPrefix(strings.ToLower(Content-Disposition), "attachment")
isAttachment(contentDisposition) ==
    contentDisposition \in {"attachment", "Attachment; filename=a.txt"}

\* htmlTagPattern.ReplaceAllString(input, " "): every "<" up to the next ">"
RECURSIVE replaceTags(_)
replaceTags(s) ==
    IF s = <<>> THEN <<>>
    ELSE IF Head(s) = "<" /\ \E j \in 2..Len(s) : s[j] = ">"
         THEN LET j == CHOOSE k \in 2..Len(s) :
                          s[k] = ">" /\ \A m \in 2..(k-1) : s[m] # ">"
              IN  <<" ">> \o replaceTags(SubSeq(s, j + 1, Len(s)))
         ELSE <<Head(s)>> \o replaceTags(Tail(s))

\* html.UnescapeString: an entity reference is one element of the sequence
UnescapeChar(c) ==
    CASE c = "&amp;" -> "&"
      [] c = "&lt;"  -> "<"
      [] c = "&nbsp;" -> "nbsp"
      [] OTHER       -> c

UnescapeString(s) == [i \in 1..Len(s) |-> UnescapeChar(s[i])]

\* strings.Join(strings.Fields(s), " ")
RECURSIVE joinFields(_)
joinFields(s) ==
    LET t == TrimLeftSpace(s)
    IN  IF t = <<>> THEN <<>>
        ELSE LET n == IF \E i \in 1..Len(t) : IsSpace(t[i])
                      THEN (CHOOSE i \in 1..Len(t) :
                               IsSpace(t[i]) /\ \A j \in 1..(i-1) : ~IsSpace(t[j])) - 1
                      ELSE Len(t)
                 rest == joinFields(SubSeq(t, n + 1, Len(t)))
             IN  SubSeq(t, 1, n) \o (IF rest = <<>> THEN <<>> ELSE <<" ">> \o rest)

htmlToText(input) == TrimSpace(joinFields(UnescapeString(replaceTags(input))))

\* strings.Join(segments, "\n\n")
RECURSIVE JoinSegments(_)
JoinSegments(segments) ==
    IF segments = <<>> THEN <<>>
    ELSE IF Len(segments) = 1 THEN segments[1]
    ELSE segments[1] \o <<"\n", "\n">> \o JoinSegments(Tail(segments))

RECURSIVE partSegmentsWithAttachments(_, _)
partSegmentsWithAttachments(parts, types) ==
    IF parts = <<>> THEN <<>>
    ELSE LET part == Head(parts)
             rest == partSegmentsWithAttachments(Tail(parts), types)
         IN  IF part.Body = <<>> THEN rest
             ELSE IF normalizeMediaType(part.ContentType) \in types
                  THEN <<part.Body>> \o rest
             ELSE rest

\* the loop over reader.NextPart(): the segments of one media type, in part
\* order, of the parts that are no attachment and are not empty
RECURSIVE partSegments(_, _)
partSegments(parts, types) ==
    IF parts = <<>> THEN <<>>
    ELSE LET part == Head(parts)
             rest == partSegments(Tail(parts), types)
         IN  IF isAttachment(part.ContentDisposition) THEN rest
             ELSE IF part.Body = <<>> THEN rest
             ELSE IF normalizeMediaType(part.ContentType) \in types
                  THEN <<part.Body>> \o rest
             ELSE rest

readReplyBodyPlainFromRaw(data) ==
    LET plain0 == JoinSegments(partSegments(data.parts, {"", "text/plain"}))
        html0  == JoinSegments(partSegments(data.parts, {"text/html"}))
        plain1 == IF plain0 = <<>> THEN data.rawBody ELSE plain0
    IN  IF data.partErr
        THEN [err |-> "read message part", value |-> [Plain |-> <<>>, HTML |-> <<>>]]
        ELSE [err |-> NoErr, value |-> [Plain |-> plain1, HTML |-> html0]]

\* data.parts are the parts NextPart yields; data.partErr says that NextPart
\* or the read of a part body fails; data.rawBody is extractRawBody(msg.Data)
readReplyBody(data) ==
    LET plain0 == JoinSegments(partSegments(data.parts, {"", "text/plain"}))
        html0  == JoinSegments(partSegments(data.parts, {"text/html"}))
        useRaw == plain0 = <<>> /\ html0 = <<>>
        rawIsHTML == normalizeMediaType(data.ContentType) = "text/html"
        html1  == IF useRaw /\ rawIsHTML THEN data.rawBody ELSE html0
        plain1 == IF useRaw
                  THEN (IF rawIsHTML THEN htmlToText(data.rawBody) ELSE data.rawBody)
                  ELSE plain0
        plain2 == IF plain1 = <<>> /\ html1 # <<>> THEN htmlToText(html1) ELSE plain1
    IN  IF data.partErr
        THEN [err |-> "read message part", value |-> [Plain |-> <<>>, HTML |-> <<>>]]
        ELSE [err |-> NoErr, value |-> [Plain |-> plain2, HTML |-> html1]]

-----------------------------------------------------------------------------
(* buildReplyMessage *)

replyPartsPlainUnforced(replyBody) ==
    LET plainBody == replyBody.Plain
        htmlBody  == replyBody.HTML
        plainPart == IF plainBody # <<>> THEN plainBody ELSE htmlToText(htmlBody)
    IN  IF htmlBody = <<>>
        THEN [ContentType |-> "text/plain",
              Parts |-> <<[ContentType |-> "text/plain", Body |-> plainBody]>>]
        ELSE [ContentType |-> "multipart/alternative",
              Parts |-> <<[ContentType |-> "text/plain", Body |-> plainPart],
                          [ContentType |-> "text/html", Body |-> htmlBody]>>]

\* the body of the reply: one text/plain entity, or the multipart/alternative
\* entity mail.Writer.CreateInline opens, with the parts written into it
replyParts(replyBody) ==
    LET bothEmpty == replyBody.Plain = <<>> /\ replyBody.HTML = <<>>
        plainBody == IF bothEmpty THEN <<"\n">> ELSE replyBody.Plain
        htmlBody  == replyBody.HTML
        derived   == htmlToText(htmlBody)
        plainPart == IF plainBody # <<>> THEN plainBody
                     ELSE IF derived # <<>> THEN derived
                     ELSE <<"\n">>
    IN  IF htmlBody = <<>>
        THEN [ContentType |-> "text/plain",
              Parts |-> <<[ContentType |-> "text/plain", Body |-> plainBody]>>]
        ELSE [ContentType |-> "multipart/alternative",
              Parts |-> <<[ContentType |-> "text/plain", Body |-> plainPart],
                          [ContentType |-> "text/html", Body |-> htmlBody]>>]

\* messageIDGen is what header.GenerateMessageIDWithHostname and the fallback
\* header.GenerateMessageID do: "qualified", "fallback" or "fail".  The
\* configured from_address values used below carry no display name, so the
\* From name is the configured from_name.
buildReplyMessage(r, rcpt, replyBody, threadMeta, messageIDGen) ==
    LET fromAddress     == ParseAddress(r.fromAddress)
        parsedRecipient == ParseAddress(rcpt)
        normalized      == normalizeReplySubject(threadMeta.Subject)
        subject         == IF normalized = <<>> THEN <<"R", "e", ":">> ELSE normalized
        written         == replyParts(replyBody)
        message ==
            [Subject    |-> subject,
             From       |-> [Name |-> r.fromName, Address |-> fromAddress.Address],
             To         |-> <<parsedRecipient.Address>>,
             InReplyTo  |-> IF threadMeta.MessageID # ""
                            THEN <<threadMeta.MessageID>> ELSE <<>>,
             References |-> threadMeta.References,
             MessageID  |-> messageIDGen,
             ContentType |-> written.ContentType,
             Parts      |-> written.Parts,
             DKIMSignature |-> FALSE]
    IN  IF ~fromAddress.ok THEN [err |-> "invalid configured from_address", value |-> <<>>]
        ELSE IF ~parsedRecipient.ok THEN [err |-> "invalid recipient address", value |-> <<>>]
        ELSE IF messageIDGen = "fail" THEN [err |-> "generate message-id", value |-> <<>>]
        ELSE [err |-> NoErr, value |-> message]

MessageIDGens == {"qualified", "fallback", "fail"}

-----------------------------------------------------------------------------
(* Replier.Echo, step by step.  pc is the step Echo is about to run. *)

EchoFail(kind) ==
    /\ pc' = "done"
    /\ echoResult' = kind

\* mail.CreateReader(bytes.NewReader(msg.Data))
EchoParse ==
    /\ pc = "parse"
    /\ IF msg.Data.parseErr
       THEN EchoFail("parse inbound message")
       ELSE pc' = "select" /\ UNCHANGED echoResult
    /\ UNCHANGED <<cfg, msg, recipient, body, meta, replyMessage, deliverCalls>>
    /\ UNCHANGED <<sessionVars, deliverVars>>

EchoSelectNoShortCircuit ==
    /\ pc = "select"
    /\ recipient' = selectReplyRecipient(msg.EnvelopeFrom, msg.Data.header).value
    /\ pc' = "body"
    /\ UNCHANGED <<cfg, msg, body, meta, replyMessage, deliverCalls, echoResult>>
    /\ UNCHANGED <<sessionVars, deliverVars>>

EchoSelect ==
    /\ pc = "select"
    /\ LET r == selectReplyRecipient(msg.EnvelopeFrom, msg.Data.header)
       IN  /\ recipient' = r.value
           /\ IF r.err # NoErr THEN EchoFail(r.err)
              ELSE pc' = "body" /\ UNCHANGED echoResult
    /\ UNCHANGED <<cfg, msg, body, meta, replyMessage, deliverCalls>>
    /\ UNCHANGED <<sessionVars, deliverVars>>

EchoBody ==
    /\ pc = "body"
    /\ LET r == readReplyBody(msg.Data)
       IN  /\ body' = r.value
           /\ IF r.err # NoErr THEN EchoFail(r.err)
              ELSE pc' = "build" /\ UNCHANGED echoResult
    /\ UNCHANGED <<cfg, msg, recipient, meta, replyMessage, deliverCalls>>
    /\ UNCHANGED <<sessionVars, deliverVars>>

EchoBuild ==
    /\ pc = "build"
    /\ meta' = extractThreadMetadata(msg.Data.header)
    /\ \E gen \in MessageIDGens :
          LET r == buildReplyMessage(cfg, recipient, body, meta', gen)
          IN  /\ replyMessage' = r.value
              /\ IF r.err # NoErr THEN EchoFail(r.err)
                 ELSE pc' = "sign" /\ UNCHANGED echoResult
    /\ UNCHANGED <<cfg, msg, recipient, body, deliverCalls>>
    /\ UNCHANGED <<sessionVars, deliverVars>>

EchoSignUnsignedFallback ==
    /\ pc = "sign"
    /\ \E signed \in BOOLEAN :
          replyMessage' = [replyMessage EXCEPT !.DKIMSignature = cfg.dkim /\ signed]
    /\ pc' = "deliver"
    /\ UNCHANGED <<cfg, msg, recipient, body, meta, deliverCalls, echoResult>>
    /\ UNCHANGED <<sessionVars, deliverVars>>

\* The signer: active only with a signing configuration; signs the composed
\* reply or fails, and a failure ends Echo.
EchoSign ==
    /\ pc = "sign"
    /\ IF ~cfg.dkim
       THEN pc' = "deliver" /\ UNCHANGED <<replyMessage, echoResult>>
       ELSE \E signed \in BOOLEAN :
               IF signed
               THEN /\ replyMessage' = [replyMessage EXCEPT !.DKIMSignature = TRUE]
                    /\ pc' = "deliver"
                    /\ UNCHANGED echoResult
               ELSE EchoFail("sign reply") /\ UNCHANGED replyMessage
    /\ UNCHANGED <<cfg, msg, recipient, body, meta, deliverCalls>>
    /\ UNCHANGED <<sessionVars, deliverVars>>

DeliverOutcomes == {"nil", "delivery failed"}

\* r.deliverFn(ctx, recipient, replyMessage) and Echo's return: the delivery
\* capability is called once and what it returns is what Echo returns.
EchoDeliver ==
    /\ pc = "deliver"
    /\ \E result \in DeliverOutcomes :
          /\ deliverCalls' = Append(deliverCalls,
                 [to |-> recipient, message |-> replyMessage, result |-> result])
          /\ echoResult' = result
    /\ pc' = "done"
    /\ UNCHANGED <<cfg, msg, recipient, body, meta, replyMessage>>
    /\ UNCHANGED <<sessionVars, deliverVars>>

-----------------------------------------------------------------------------
(* Inputs of Echo *)

\* envelope senders: "", "e@x", "<e@x>", " e@x ", "e@", "@x", "e x@y",
\* "e@x@y", "ex", "<>", "N <e@x>"
EnvelopeInputs ==
    { <<>>,
      <<"e", "@", "x">>,
      <<"<", "e", "@", "x", ">">>,
      <<" ", "e", "@", "x", " ">>,
      <<"e", "@">>,
      <<"@", "x">>,
      <<"e", " ", "x", "@", "y">>,
      <<"e", "@", "x", "@", "y">>,
      <<"e", "x">>,
      <<"<", ">">>,
      <<"N", " ", "<", "e", "@", "x", ">">> }

AddrR == <<"r", "@", "x">>
AddrQ == <<"q", "@", "x">>
AddrF == <<"f", "@", "x">>

AbsentList == [err |-> FALSE, addrs |-> <<>>]
BadList    == [err |-> TRUE, addrs |-> <<>>]

ReplyToInputs == { AbsentList, BadList,
                   [err |-> FALSE, addrs |-> <<AddrR>>],
                   [err |-> FALSE, addrs |-> <<AddrQ, AddrR>>] }

FromInputs == { AbsentList, BadList, [err |-> FALSE, addrs |-> <<AddrF>>] }

MessageIDInputs == { [err |-> FALSE, id |-> ""],
                     [err |-> TRUE, id |-> ""],
                     [err |-> FALSE, id |-> "m1"] }

ReferencesInputs == { [err |-> TRUE, ids |-> <<>>],
                      [err |-> FALSE, ids |-> <<>>],
                      [err |-> FALSE, ids |-> <<"root">>],
                      [err |-> FALSE, ids |-> <<"m1">>],
                      [err |-> FALSE, ids |-> <<"root", "m1">>],
                      [err |-> FALSE, ids |-> <<"m1", "root">>],
                      [err |-> FALSE, ids |-> <<"root", "p1">>] }

\* subjects: absent, undecodable, "Hi", "Re: Hi", "RE:Hi", " ", and, as
\* encoded words decode to them, " Hi " and " re: Hi"
SubjectInputs == { [err |-> FALSE, value |-> <<>>],
                   [err |-> FALSE, value |-> <<" ", "H", "i", " ">>],
                   [err |-> FALSE, value |-> <<" ", "r", "e", ":", " ", "H", "i">>],
                   [err |-> TRUE, value |-> <<>>],
                   [err |-> FALSE, value |-> <<"H", "i">>],
                   [err |-> FALSE, value |-> <<"R", "e", ":", " ", "H", "i">>],
                   [err |-> FALSE, value |-> <<"R", "E", ":", "H", "i">>],
                   [err |-> FALSE, value |-> <<" ">>] }

Header(replyTo, from, subject, messageID, references) ==
    ("Reply-To" :> replyTo) @@ ("From" :> from) @@ ("Subject" :> subject)
        @@ ("Message-ID" :> messageID) @@ ("References" :> references)

Part(disposition, contentType, content) ==
    [ContentDisposition |-> disposition, ContentType |-> contentType, Body |-> content]

PlainPart == Part("", "text/plain; charset=\"UTF-8\"", <<"P">>)
HTMLPart  == Part("", "TEXT/HTML; charset=utf-8", <<"<", "b", ">", "H", "<", "/", "b", ">", "&amp;", "f">>)

\* the decoded payloads: part lists, top-level content type, raw body
BodyInputs ==
    { [parts |-> <<PlainPart>>, partErr |-> FALSE, ContentType |-> "", rawBody |-> <<"P">>],
      [parts |-> <<PlainPart, HTMLPart>>, partErr |-> FALSE,
       ContentType |-> "multipart/alternative; boundary=b", rawBody |-> <<"-">>],
      [parts |-> <<HTMLPart>>, partErr |-> FALSE,
       ContentType |-> "multipart/alternative; boundary=b", rawBody |-> <<"-">>],
      [parts |-> <<>>, partErr |-> FALSE, ContentType |-> "", rawBody |-> <<>>],
      [parts |-> <<PlainPart>>, partErr |-> TRUE, ContentType |-> "", rawBody |-> <<"P">>] }

Payload(parseErr, header, b) ==
    [parseErr |-> parseErr, header |-> header, parts |-> b.parts, partErr |-> b.partErr,
     ContentType |-> b.ContentType, rawBody |-> b.rawBody]

BaseReplyTo    == [err |-> FALSE, addrs |-> <<AddrR>>]
BaseFrom       == [err |-> FALSE, addrs |-> <<AddrF>>]
BaseSubject    == [err |-> FALSE, value |-> <<"H", "i">>]
BaseMessageID  == [err |-> FALSE, id |-> "m1"]
BaseReferences == [err |-> FALSE, ids |-> <<"root">>]
BaseBody       == [parts |-> <<PlainPart>>, partErr |-> FALSE, ContentType |-> "",
                   rawBody |-> <<"P">>]
BaseHeader     == Header(BaseReplyTo, BaseFrom, BaseSubject, BaseMessageID, BaseReferences)

\* a payload mail.CreateReader rejects
Unparseable == Payload(TRUE, Header(AbsentList, AbsentList, [err |-> FALSE, value |-> <<>>],
                                   [err |-> FALSE, id |-> ""], [err |-> FALSE, ids |-> <<>>]),
                       [parts |-> <<>>, partErr |-> FALSE, ContentType |-> "", rawBody |-> <<>>])

\* The inbound messages Echo is run on: every envelope sender with every
\* Reply-To and From header; every Message-ID with every References header;
\* every subject; every body; an unparseable payload.
EchoInputs ==
    { [EnvelopeFrom |-> e,
       Data |-> Payload(FALSE, Header(rt, fr, BaseSubject, BaseMessageID, BaseReferences),
                        BaseBody)] :
        e \in EnvelopeInputs, rt \in ReplyToInputs, fr \in FromInputs }
    \cup
    { [EnvelopeFrom |-> <<"e", "@", "x">>,
       Data |-> Payload(FALSE, Header(BaseReplyTo, BaseFrom, su, mid, refs), BaseBody)] :
        su \in SubjectInputs, mid \in MessageIDInputs, refs \in ReferencesInputs }
    \cup
    { [EnvelopeFrom |-> e, Data |-> Payload(FALSE, BaseHeader, b)] :
        e \in {<<"e", "@", "x">>, <<>>}, b \in BodyInputs }
    \cup
    { [EnvelopeFrom |-> <<"e", "@", "x">>, Data |-> Unparseable] }

\* Replier configurations: from_address "o@h" or the unparseable "oh", with
\* and without a signing section
Configs ==
    { [hostname |-> <<"h">>, fromAddress |-> fa, mailFrom |-> <<"b", "@", "h">>,
       fromName |-> <<"E">>, dkim |-> dk] :
        fa \in {<<"o", "@", "h">>, <<"o", "h">>}, dk \in BOOLEAN }

-----------------------------------------------------------------------------
(* The states of the parts a specification leaves alone *)

Conns == {"c1", "c2"}

NoSession == [open |-> FALSE, envelopeFrom |-> <<>>, recipients |-> <<>>, storage |-> <<>>]

NoData == [conn |-> "none", envelopeFrom |-> <<>>, recipients |-> <<>>,
           readErr |-> FALSE, echoMsgs |-> <<>>, echoResult |-> "none",
           result |-> "none"]

SessionIdle ==
    /\ sessions = [c \in Conns |-> NoSession]
    /\ lastData = NoData
    /\ shutdown = FALSE
    /\ calls = [c \in Conns |-> <<>>]

EchoIdle ==
    /\ pc = "idle"
    /\ cfg = [hostname |-> <<"h">>, fromAddress |-> <<"o", "@", "h">>,
              mailFrom |-> <<"b", "@", "h">>, fromName |-> <<"E">>, dkim |-> FALSE]
    /\ msg = [EnvelopeFrom |-> <<>>, Data |-> Unparseable]
    /\ recipient = <<>>
    /\ body = [Plain |-> <<>>, HTML |-> <<>>]
    /\ meta = [Subject |-> <<>>, MessageID |-> "", References |-> <<>>]
    /\ replyMessage = <<>>
    /\ deliverCalls = <<>>
    /\ echoResult = "pending"

DeliverIdle ==
    /\ dpc = "idle"
    /\ to = <<>>
    /\ domain = <<>>
    /\ resolved = <<>>
    /\ lookupErr = FALSE
    /\ mxRecords = <<>>
    /\ targetHosts = <<>>
    /\ attemptErrors = <<>>
    /\ hostIdx = 0
    /\ attempts = <<>>
    /\ ctxDone = FALSE
    /\ deliverResult = [kind |-> "idle", errors |-> <<>>]

-----------------------------------------------------------------------------
(* Echo on its own: a Replier and an inbound message, run to its return *)

InitEcho ==
    /\ SessionIdle
    /\ DeliverIdle
    /\ pc = "parse"
    /\ cfg \in Configs
    /\ msg \in EchoInputs
    /\ recipient = <<>>
    /\ body = [Plain |-> <<>>, HTML |-> <<>>]
    /\ meta = [Subject |-> <<>>, MessageID |-> "", References |-> <<>>]
    /\ replyMessage = <<>>
    /\ deliverCalls = <<>>
    /\ echoResult = "pending"

NextEcho ==
    \/ EchoParse
    \/ EchoSelect
    \/ EchoBody
    \/ EchoBuild
    \/ EchoSign
    \/ EchoDeliver

SpecEcho == InitEcho /\ [][NextEcho]_vars

-----------------------------------------------------------------------------
(* Body extraction and reply composition, over the bodies of inbound       *)
(* messages: Echo from readReplyBody on                                    *)

MaxParts == 2

\* the sequences over S of length up to n
RECURSIVE SeqsUpTo(_, _)
SeqsUpTo(S, n) ==
    IF n = 0 THEN {<<>>}
    ELSE LET shorter == SeqsUpTo(S, n - 1)
         IN  shorter \cup {Append(q, x) : q \in {r \in shorter : Len(r) = n - 1}, x \in S}

\* the parts mail.Reader.NextPart yields: "P" as text/plain; "Q" without a
\* content type; "<b>H</b>&amp;f" and "<br>" as text/html; attachments of
\* type text/plain and text/html; an inline image; an empty text/plain part
PartInputs ==
    { PlainPart,
      Part("", "", <<"Q">>),
      HTMLPart,
      Part("", "TEXT/HTML; charset=utf-8", <<"<", "b", "r", ">">>),
      Part("Attachment; filename=a.txt", "text/plain; charset=\"UTF-8\"", <<"A">>),
      Part("attachment", "TEXT/HTML; charset=utf-8", <<"<", "i", ">", "B", "<", "/", "i", ">">>),
      Part("", "image/png", <<"I">>),
      Part("", "text/plain; charset=\"UTF-8\"", <<>>) }

\* extractRawBody of a multipart message: what follows the header's blank
\* line, the boundary lines and the part bodies
RECURSIVE MultipartRaw(_)
MultipartRaw(parts) ==
    IF parts = <<>> THEN <<"--b--">>
    ELSE <<"--b">> \o Head(parts).Body \o MultipartRaw(Tail(parts))

\* a message that is one entity: its part is the message itself
SinglePartBody(part) ==
    [parts |-> <<part>>, partErr |-> FALSE, ContentType |-> part.ContentType,
     rawBody |-> part.Body]

MultipartBody(parts) ==
    [parts |-> parts, partErr |-> FALSE,
     ContentType |-> "multipart/alternative; boundary=b", rawBody |-> MultipartRaw(parts)]

BodyCases ==
    { SinglePartBody(part) : part \in PartInputs }
    \cup { MultipartBody(parts) : parts \in SeqsUpTo(PartInputs, MaxParts) }

InitBody ==
    /\ SessionIdle
    /\ DeliverIdle
    /\ pc = "body"
    /\ cfg \in { c \in Configs : ParseAddress(c.fromAddress).ok }
    /\ msg \in { [EnvelopeFrom |-> <<"e", "@", "x">>, Data |-> Payload(FALSE, BaseHeader, b)] :
                    b \in BodyCases }
    /\ recipient = <<"e", "@", "x">>
    /\ body = [Plain |-> <<>>, HTML |-> <<>>]
    /\ meta = [Subject |-> <<>>, MessageID |-> "", References |-> <<>>]
    /\ replyMessage = <<>>
    /\ deliverCalls = <<>>
    /\ echoResult = "pending"

NextBody ==
    \/ EchoBody
    \/ EchoBuild

SpecBody == InitBody /\ [][NextBody]_vars

-----------------------------------------------------------------------------
(* Replier.deliverDirect *)

MaxMX == 2

MXPrefs == {10, 20}

\* host names as the resolver returns them: "a." and "b"
MXHosts == { <<"a", ".">>, <<"b">> }

MXRecordSet == [Pref : MXPrefs, Host : MXHosts]

\* what LookupMX can return: up to MaxMX records in any order, no record
\* twice (a DNS answer holds a record once)
MXInputs ==
    { q \in SeqsUpTo(MXRecordSet, MaxMX) :
        \A i \in 1..Len(q) : \A j \in 1..Len(q) : (i < j) => q[i] # q[j] }

normalizeMXHost(host) == TrimSuffix(host, <<".">>)

addressDomain(address) ==
    LET atIndex == LastIndex(address, "@")
    IN  IF atIndex <= 0 \/ atIndex = Len(address) - 1
        THEN [err |-> "recipient address missing domain", value |-> <<>>]
        ELSE [err |-> NoErr, value |-> SubSeq(address, atIndex + 2, Len(address))]

SortedByPref(records) ==
    \A i \in 1..(Len(records) - 1) : ~(records[i + 1].Pref < records[i].Pref)

SortSliceUnsorted(records) == {records}

\* sort.Slice(mxRecords, less by Pref): sort.Slice is not a stable sort, so
\* the result is any arrangement of the records that is ordered by Pref
SortSlice(records) ==
    { sorted \in { [i \in 1..Len(records) |-> records[p[i]]] :
                       p \in Permutations(1..Len(records)) } :
        SortedByPref(sorted) }

lookupTargetsIgnoringRecords(sorted, failed, dom) == <<dom>>

\* the target list: the sorted records' host names, or the domain itself
lookupTargets(sorted, failed, dom) ==
    IF ~failed /\ Len(sorted) > 0
    THEN [i \in 1..Len(sorted) |-> normalizeMXHost(sorted[i].Host)]
    ELSE <<dom>>

MXLookupError == [host |-> <<>>, err |-> "mx lookup"]

lookupAttemptErrorsDropped(failed) == <<>>

lookupAttemptErrors(failed) == IF failed THEN <<MXLookupError>> ELSE <<>>

ConnectFailed == "starttls failed, plain failed"

Dial(kind, ok) == [kind |-> kind, ok |-> ok]

dialSMTPClientNoFallback(net) ==
    [dials      |-> <<Dial("starttls", net.starttls)>>,
     tlsEnabled |-> net.starttls,
     err        |-> IF net.starttls THEN NoErr ELSE ConnectFailed]

\* dialSMTPClient: smtp.DialStartTLS first and, when that fails, smtp.Dial;
\* dials are the dial calls made, in order
dialSMTPClient(net) ==
    IF net.starttls
    THEN [dials |-> <<Dial("starttls", TRUE)>>, tlsEnabled |-> TRUE, err |-> NoErr]
    ELSE [dials |-> <<Dial("starttls", FALSE), Dial("plain", net.plain)>>,
          tlsEnabled |-> FALSE,
          err |-> IF net.plain THEN NoErr ELSE ConnectFailed]

\* dialSMTPClient and sendToHost against one host.  net says what the host
\* would answer to each operation; the result names the operations actually
\* performed and the error returned.
sendToHost(r, host, net) ==
    LET dial       == dialSMTPClient(net)
        tlsEnabled == dial.tlsEnabled
        connected  == dial.err = NoErr
        helloDone  == connected /\ ~tlsEnabled /\ r.hostname # <<>>
        helloOK    == ~helloDone \/ net.hello
        sendDone   == connected /\ helloOK
        quitDone   == sendDone /\ net.sendMail
    IN  [host        |-> host,
         dials       |-> dial.dials,
         starttls    |-> tlsEnabled,
         plainTried  |-> Len(dial.dials) = 2,
         hello       |-> helloDone,
         transferred |-> sendDone /\ net.sendMail,
         quit        |-> quitDone,
         err |-> IF ~connected THEN dial.err
                 ELSE IF ~helloOK THEN "helo/ehlo failed"
                 ELSE IF ~net.sendMail THEN "send mail"
                 ELSE IF ~net.quit THEN "quit smtp session"
                 ELSE NoErr]

NetBehaviours ==
    [starttls : BOOLEAN, plain : BOOLEAN, hello : BOOLEAN, sendMail : BOOLEAN,
     quit : BOOLEAN]

Result(kind, errors) == [kind |-> kind, errors |-> errors]

\* lines 365-373: parse the recipient and derive its domain
DeliverStart ==
    /\ dpc = "start"
    /\ LET parsedRecipient == ParseAddress(to)
           dom == addressDomain(parsedRecipient.Address)
       IN  IF ~parsedRecipient.ok
           THEN /\ dpc' = "done"
                /\ deliverResult' = Result("parse recipient", <<>>)
                /\ UNCHANGED domain
           ELSE IF dom.err # NoErr
           THEN /\ dpc' = "done"
                /\ deliverResult' = Result(dom.err, <<>>)
                /\ UNCHANGED domain
           ELSE /\ dpc' = "lookup"
                /\ domain' = dom.value
                /\ UNCHANGED deliverResult
    /\ UNCHANGED <<to, resolved, lookupErr, mxRecords, targetHosts, attemptErrors,
                   hostIdx, attempts, ctxDone>>
    /\ UNCHANGED <<sessionVars, echoVars>>

\* lines 375-391: resolve, sort, build the target list, record a lookup error
LookupMX ==
    /\ dpc = "lookup"
    /\ \E records \in MXInputs, failed \in BOOLEAN :
          /\ resolved' = records
          /\ lookupErr' = failed
          /\ \E sorted \in (IF ~failed /\ Len(records) > 0
                            THEN SortSlice(records) ELSE {records}) :
                /\ mxRecords' = sorted
                /\ targetHosts' = lookupTargets(sorted, failed, domain)
          /\ attemptErrors' = lookupAttemptErrors(failed)
    /\ hostIdx' = 1
    /\ dpc' = "loop"
    /\ UNCHANGED <<to, domain, attempts, ctxDone, deliverResult>>
    /\ UNCHANGED <<sessionVars, echoVars>>

\* lines 394-398: ctx is done when the loop reaches the next host
LoopCancelled ==
    /\ dpc = "loop"
    /\ hostIdx <= Len(targetHosts)
    /\ ctxDone
    /\ dpc' = "done"
    /\ deliverResult' = Result("context canceled", <<>>)
    /\ UNCHANGED <<to, domain, resolved, lookupErr, mxRecords, targetHosts,
                   attemptErrors, hostIdx, attempts, ctxDone>>
    /\ UNCHANGED <<sessionVars, echoVars>>

StartAttemptIgnoringContext ==
    /\ dpc = "loop"
    /\ hostIdx <= Len(targetHosts)
    /\ dpc' = "attempt"
    /\ UNCHANGED <<to, domain, resolved, lookupErr, mxRecords, targetHosts,
                   attemptErrors, hostIdx, attempts, ctxDone, deliverResult>>
    /\ UNCHANGED <<sessionVars, echoVars>>

\* lines 393-398: ctx is not done when the loop reaches the next host (the
\* default branch of the select), so the attempt on that host starts
StartAttempt ==
    /\ dpc = "loop"
    /\ hostIdx <= Len(targetHosts)
    /\ ~ctxDone
    /\ dpc' = "attempt"
    /\ UNCHANGED <<to, domain, resolved, lookupErr, mxRecords, targetHosts,
                   attemptErrors, hostIdx, attempts, ctxDone, deliverResult>>
    /\ UNCHANGED <<sessionVars, echoVars>>

\* lines 400-404: the host attempt runs to its end, whatever ctx has become
\* meanwhile (sendToHost does not take ctx); its error is recorded and the
\* loop goes on, its success returns nil
SendToHost ==
    /\ dpc = "attempt"
    /\ \E net \in NetBehaviours :
          LET attempt == sendToHost(cfg, targetHosts[hostIdx], net)
          IN  /\ attempts' = Append(attempts, attempt)
              /\ IF attempt.err # NoErr
                 THEN /\ attemptErrors' = Append(attemptErrors,
                                                 [host |-> attempt.host, err |-> attempt.err])
                      /\ hostIdx' = hostIdx + 1
                      /\ dpc' = "loop"
                      /\ UNCHANGED deliverResult
                 ELSE /\ dpc' = "done"
                      /\ deliverResult' = Result("nil", <<>>)
                      /\ UNCHANGED <<attemptErrors, hostIdx>>
    /\ UNCHANGED <<to, domain, resolved, lookupErr, mxRecords, targetHosts, ctxDone>>
    /\ UNCHANGED <<sessionVars, echoVars>>

DeliverExhaustedLastOnly ==
    /\ dpc = "loop"
    /\ hostIdx > Len(targetHosts)
    /\ dpc' = "done"
    /\ deliverResult' = Result("delivery failed",
                               <<attemptErrors[Len(attemptErrors)]>>)
    /\ UNCHANGED <<to, domain, resolved, lookupErr, mxRecords, targetHosts,
                   attemptErrors, hostIdx, attempts, ctxDone>>
    /\ UNCHANGED <<sessionVars, echoVars>>

\* line 407: every host failed
DeliverExhausted ==
    /\ dpc = "loop"
    /\ hostIdx > Len(targetHosts)
    /\ dpc' = "done"
    /\ deliverResult' = Result("delivery failed", attemptErrors)
    /\ UNCHANGED <<to, domain, resolved, lookupErr, mxRecords, targetHosts,
                   attemptErrors, hostIdx, attempts, ctxDone>>
    /\ UNCHANGED <<sessionVars, echoVars>>

\* the caller's context is cancelled or its deadline passes
CancelContext ==
    /\ dpc \in {"start", "lookup", "loop", "attempt"}
    /\ ~ctxDone
    /\ ctxDone' = TRUE
    /\ UNCHANGED <<dpc, to, domain, resolved, lookupErr, mxRecords, targetHosts,
                   attemptErrors, hostIdx, attempts, deliverResult>>
    /\ UNCHANGED <<sessionVars, echoVars>>

\* recipients handed to deliverDirect: "e@d", "N <e@d>", "e@"
DeliverToInputs ==
    { <<"e", "@", "d">>,
      <<"N", " ", "<", "e", "@", "d", ">">>,
      <<"e", "@">> }

InitDeliver ==
    /\ SessionIdle
    /\ pc = "deliver"
    /\ cfg \in { [c EXCEPT !.hostname = h] :
                    c \in { k \in Configs : ~k.dkim /\ ParseAddress(k.fromAddress).ok },
                    h \in {<<"h">>, <<>>} }
    /\ msg = [EnvelopeFrom |-> <<>>, Data |-> Unparseable]
    /\ recipient = <<>>
    /\ body = [Plain |-> <<>>, HTML |-> <<>>]
    /\ meta = [Subject |-> <<>>, MessageID |-> "", References |-> <<>>]
    /\ replyMessage = <<>>
    /\ deliverCalls = <<>>
    /\ echoResult = "pending"
    /\ dpc = "start"
    /\ to \in DeliverToInputs
    /\ domain = <<>>
    /\ resolved = <<>>
    /\ lookupErr = FALSE
    /\ mxRecords = <<>>
    /\ targetHosts = <<>>
    /\ attemptErrors = <<>>
    /\ hostIdx = 0
    /\ attempts = <<>>
    /\ ctxDone = FALSE
    /\ deliverResult = Result("pending", <<>>)

NextDeliver ==
    \/ DeliverStart
    \/ LookupMX
    \/ LoopCancelled
    \/ StartAttempt
    \/ SendToHost
    \/ DeliverExhausted
    \/ CancelContext

SpecDeliver == InitDeliver /\ [][NextDeliver]_vars

-----------------------------------------------------------------------------
(* The SMTP session callbacks (server.go) *)

MaxRcpt == 2

\* MAIL FROM arguments: "e@x", "f@x"
SessionSenders == { <<"e", "@", "x">>, <<"f", "@", "x">> }

\* RCPT TO arguments: "o@h", "p@h"
SessionRcpts == { <<"o", "@", "h">>, <<"p", "@", "h">> }

\* DATA payloads
DataInputs == {"d1", "d2"}

\* what Processor.Echo returns
EchoOutcomes == {"nil", "unable to determine reply recipient", "delivery failed"}

\* a callback as the session received it
Call(op, arg) == [op |-> op, arg |-> arg]

\* Backend.NewSession: a session with zero values, per connection; the
\* recipients slice is nil, with no array behind it
NewSession(c) ==
    /\ ~sessions[c].open
    /\ sessions' = [sessions EXCEPT ![c] =
                       [open |-> TRUE, envelopeFrom |-> <<>>, recipients |-> <<>>,
                        storage |-> <<>>]]
    /\ calls' = [calls EXCEPT ![c] = <<>>]
    /\ UNCHANGED <<lastData, shutdown>>
    /\ UNCHANGED <<echoVars, deliverVars>>

\* Reset and Mail cut recipients to length 0 in place (s.recipients[:0]):
\* the array behind it, with what it holds, stays
Reset(c) ==
    /\ sessions[c].open
    /\ sessions' = [sessions EXCEPT ![c].envelopeFrom = <<>>, ![c].recipients = <<>>]
    /\ calls' = [calls EXCEPT ![c] = <<Call("Reset", <<>>)>>]
    /\ UNCHANGED <<lastData, shutdown>>
    /\ UNCHANGED <<echoVars, deliverVars>>

MailKeepingRecipients(c, from) ==
    /\ sessions[c].open
    /\ sessions' = [sessions EXCEPT ![c].envelopeFrom = from]
    /\ calls' = [calls EXCEPT ![c] = <<Call("Mail", from)>>]
    /\ UNCHANGED <<lastData, shutdown>>
    /\ UNCHANGED <<echoVars, deliverVars>>

Mail(c, from) ==
    /\ sessions[c].open
    /\ sessions' = [sessions EXCEPT ![c].envelopeFrom = from, ![c].recipients = <<>>]
    /\ calls' = [calls EXCEPT ![c] = <<Call("Mail", from)>>]
    /\ UNCHANGED <<lastData, shutdown>>
    /\ UNCHANGED <<echoVars, deliverVars>>

\* the capacity append gives a full slice of strings: 1, then the double
GrownCap(cap) == IF cap = 0 THEN 1 ELSE 2 * cap

\* the array behind append(recipients, rcpt): the same array written in place
\* while there is room, a new and larger one (zero values after the
\* elements) when the slice is full
appendStorage(recipients, storage, rcpt) ==
    LET n == Len(recipients)
    IN  IF n < Len(storage)
        THEN [storage EXCEPT ![n + 1] = rcpt]
        ELSE [i \in 1..GrownCap(Len(storage)) |->
                 IF i <= n THEN recipients[i]
                 ELSE IF i = n + 1 THEN rcpt
                 ELSE <<>>]

Rcpt(c, rcpt) ==
    /\ sessions[c].open
    /\ Len(sessions[c].recipients) < MaxRcpt
    /\ sessions' = [sessions EXCEPT
                       ![c].recipients = Append(@, rcpt),
                       ![c].storage = appendStorage(sessions[c].recipients, @, rcpt)]
    /\ calls' = [calls EXCEPT ![c] = Append(@, Call("Rcpt", rcpt))]
    /\ UNCHANGED <<lastData, shutdown>>
    /\ UNCHANGED <<echoVars, deliverVars>>

NoRecipientsError == "at least one recipient is required"

InboundMessageSharing(s, data) ==
    [EnvelopeFrom |-> s.envelopeFrom, Recipients |-> s.recipients, shared |-> TRUE,
     Data |-> data]

\* the message Data builds: Recipients is a copy of s.recipients in an array
\* of its own (append([]string(nil), s.recipients...)); shared says whether
\* Recipients lies in the session's array
InboundMessage(s, data) ==
    [EnvelopeFrom |-> s.envelopeFrom, Recipients |-> s.recipients, shared |-> FALSE,
     Data |-> data]

dataCallNoPrecondition(s, data, readOK, echoOutcome) ==
    IF ~readOK
    THEN [readErr |-> TRUE, echoMsgs |-> <<>>, echoResult |-> "none",
          result |-> "read message data"]
    ELSE [readErr |-> FALSE, echoMsgs |-> <<InboundMessage(s, data)>>,
          echoResult |-> echoOutcome,
          result |-> IF echoOutcome # "nil" THEN "process echo reply" ELSE "nil"]

dataCallRetrying(s, data, readOK, echoOutcome) ==
    IF Len(s.recipients) = 0
    THEN [readErr |-> FALSE, echoMsgs |-> <<>>, echoResult |-> "none",
          result |-> NoRecipientsError]
    ELSE IF ~readOK
    THEN [readErr |-> TRUE, echoMsgs |-> <<>>, echoResult |-> "none",
          result |-> "read message data"]
    ELSE [readErr |-> FALSE,
          echoMsgs |-> IF echoOutcome # "nil"
                       THEN <<InboundMessage(s, data), InboundMessage(s, data)>>
                       ELSE <<InboundMessage(s, data)>>,
          echoResult |-> echoOutcome,
          result |-> IF echoOutcome # "nil" THEN "process echo reply" ELSE "nil"]

\* session.Data on session s: readOK is whether io.ReadAll succeeds,
\* echoOutcome what the processor's Echo returns if it is called
dataCall(s, data, readOK, echoOutcome) ==
    IF Len(s.recipients) = 0
    THEN [readErr |-> FALSE, echoMsgs |-> <<>>, echoResult |-> "none",
          result |-> NoRecipientsError]
    ELSE IF ~readOK
    THEN [readErr |-> TRUE, echoMsgs |-> <<>>, echoResult |-> "none",
          result |-> "read message data"]
    ELSE [readErr |-> FALSE, echoMsgs |-> <<InboundMessage(s, data)>>,
          echoResult |-> echoOutcome,
          result |-> IF echoOutcome # "nil" THEN "process echo reply" ELSE "nil"]

\* a Data call on connection c with a payload and a processor result drawn
\* from the given sets
DataOf(c, payloads, outcomes) ==
    /\ sessions[c].open
    /\ \E data \in payloads, readOK \in BOOLEAN, echoOutcome \in outcomes :
          LET call == dataCall(sessions[c], data, readOK, echoOutcome)
          IN  lastData' = [conn |-> c,
                           envelopeFrom |-> sessions[c].envelopeFrom,
                           recipients |-> sessions[c].recipients,
                           readErr |-> call.readErr,
                           echoMsgs |-> call.echoMsgs,
                           echoResult |-> call.echoResult,
                           result |-> call.result]
    /\ UNCHANGED <<sessions, shutdown, calls>>
    /\ UNCHANGED <<echoVars, deliverVars>>

Data(c) == DataOf(c, DataInputs, EchoOutcomes)

InitSession ==
    /\ SessionIdle
    /\ EchoIdle
    /\ DeliverIdle

\* one session in depth: the callbacks of the first connection
NextSession ==
    \E c \in {"c1"} :
        \/ NewSession(c)
        \/ Reset(c)
        \/ \E from \in SessionSenders : Mail(c, from)
        \/ \E rcpt \in SessionRcpts : Rcpt(c, rcpt)
        \/ Data(c)

SpecSession == InitSession /\ [][NextSession]_vars

\* Two connections side by side.  Each has senders and recipients of its
\* own, so that a value of one session in the other's message shows; the
\* payload and the processor's result play no part in the envelope.
SendersOf(c) == IF c = "c1" THEN { <<"e", "@", "x">> } ELSE { <<"f", "@", "x">> }

RcptsOf(c) == IF c = "c1" THEN SessionRcpts ELSE { <<"q", "@", "h">> }

NextConnections ==
    \E c \in Conns :
        \/ NewSession(c)
        \/ Reset(c)
        \/ \E from \in SendersOf(c) : Mail(c, from)
        \/ \E rcpt \in RcptsOf(c) : Rcpt(c, rcpt)
        \/ DataOf(c, {"d1"}, {"nil"})

SpecConnections == InitSession /\ [][NextConnections]_vars

-----------------------------------------------------------------------------
(* The server: a session's Data calls Replier.Echo with context.Background() *)
(* and Echo's deliverFn is Replier.deliverDirect (NewReplier)               *)

DataPayloads == { Payload(FALSE, BaseHeader, BaseBody), Unparseable }

\* session.Data up to its call of Echo: the early returns, or the message is
\* built and Echo starts.  The context it hands to Echo is
\* context.Background(), which is never done.
DataCallEcho(c) ==
    /\ pc = "idle"
    /\ sessions[c].open
    /\ \E data \in DataPayloads, readOK \in BOOLEAN :
          LET call == dataCall(sessions[c], data, readOK, "pending")
              seen == [conn |-> c,
                       envelopeFrom |-> sessions[c].envelopeFrom,
                       recipients |-> sessions[c].recipients,
                       readErr |-> call.readErr,
                       echoMsgs |-> call.echoMsgs,
                       echoResult |-> call.echoResult,
                       result |-> call.result]
          IN  IF call.echoMsgs = <<>>
              THEN /\ lastData' = seen
                   /\ UNCHANGED <<pc, msg>>
              ELSE /\ lastData' = [seen EXCEPT !.result = "pending"]
                   /\ msg' = [EnvelopeFrom |-> call.echoMsgs[1].EnvelopeFrom,
                              Data |-> call.echoMsgs[1].Data]
                   /\ pc' = "parse"
    /\ UNCHANGED <<sessions, shutdown, calls>>
    /\ UNCHANGED <<cfg, recipient, body, meta, replyMessage, deliverCalls, echoResult>>
    /\ UNCHANGED deliverVars

\* line 68 of Echo: r.deliverFn(ctx, recipient, replyMessage) enters
\* deliverDirect with Echo's ctx
EchoCallDeliver ==
    /\ pc = "deliver"
    /\ dpc = "idle"
    /\ pc' = "delivering"
    /\ dpc' = "start"
    /\ to' = recipient
    /\ deliverResult' = Result("pending", <<>>)
    /\ UNCHANGED <<domain, resolved, lookupErr, mxRecords, targetHosts, attemptErrors,
                   hostIdx, attempts, ctxDone>>
    /\ UNCHANGED <<cfg, msg, recipient, body, meta, replyMessage, deliverCalls, echoResult>>
    /\ UNCHANGED sessionVars

\* lines 68-76 of Echo: deliverDirect has returned and Echo returns its result
EchoDeliverReturn ==
    /\ pc = "delivering"
    /\ dpc = "done"
    /\ deliverCalls' = Append(deliverCalls,
           [to |-> recipient, message |-> replyMessage, result |-> deliverResult.kind])
    /\ echoResult' = deliverResult.kind
    /\ pc' = "done"
    /\ dpc' = "idle"
    /\ to' = <<>>
    /\ domain' = <<>>
    /\ resolved' = <<>>
    /\ lookupErr' = FALSE
    /\ mxRecords' = <<>>
    /\ targetHosts' = <<>>
    /\ attemptErrors' = <<>>
    /\ hostIdx' = 0
    /\ attempts' = <<>>
    /\ deliverResult' = Result("idle", <<>>)
    /\ UNCHANGED ctxDone
    /\ UNCHANGED <<cfg, msg, recipient, body, meta, replyMessage>>
    /\ UNCHANGED sessionVars

\* lines 82-90 of session.Data: Echo has returned and Data returns
DataReturn(c) ==
    /\ pc = "done"
    /\ lastData.conn = c
    /\ lastData.result = "pending"
    /\ lastData' = [lastData EXCEPT
                       !.echoResult = echoResult,
                       !.result = IF echoResult # "nil" THEN "process echo reply" ELSE "nil"]
    /\ pc' = "idle"
    /\ msg' = [EnvelopeFrom |-> <<>>, Data |-> Unparseable]
    /\ recipient' = <<>>
    /\ body' = [Plain |-> <<>>, HTML |-> <<>>]
    /\ meta' = [Subject |-> <<>>, MessageID |-> "", References |-> <<>>]
    /\ replyMessage' = <<>>
    /\ deliverCalls' = <<>>
    /\ echoResult' = "pending"
    /\ UNCHANGED cfg
    /\ UNCHANGED <<sessions, shutdown, calls>>
    /\ UNCHANGED deliverVars

\* run: the shutdown signal arrives and server.Shutdown is called.  Its
\* contexts are not handed to the sessions.
Shutdown ==
    /\ ~shutdown
    /\ shutdown' = TRUE
    /\ UNCHANGED <<sessions, lastData, calls>>
    /\ UNCHANGED <<echoVars, deliverVars>>

\* a session after MAIL FROM:<e@x> and RCPT TO:<o@h>
InitServe ==
    /\ sessions = [c \in Conns |->
                      IF c = "c1"
                      THEN [open |-> TRUE, envelopeFrom |-> <<"e", "@", "x">>,
                            recipients |-> << <<"o", "@", "h">> >>,
                            storage |-> << <<"o", "@", "h">> >>]
                      ELSE NoSession]
    /\ lastData = NoData
    /\ shutdown = FALSE
    /\ calls = [c \in Conns |->
                   IF c = "c1"
                   THEN <<Call("Mail", <<"e", "@", "x">>), Call("Rcpt", <<"o", "@", "h">>)>>
                   ELSE <<>>]
    /\ EchoIdle
    /\ DeliverIdle

\* ctx is context.Background() here, so the loop's cancellation branch
\* (LoopCancelled) and CancelContext have no step
NextServe ==
    \/ \E c \in Conns : DataCallEcho(c) \/ DataReturn(c)
    \/ EchoParse
    \/ EchoSelect
    \/ EchoBody
    \/ EchoBuild
    \/ EchoSign
    \/ EchoCallDeliver
    \/ DeliverStart
    \/ LookupMX
    \/ StartAttempt
    \/ SendToHost
    \/ DeliverExhausted
    \/ EchoDeliverReturn
    \/ Shutdown

SpecServe == InitServe /\ [][NextServe]_vars

\* C19 (as claimed): once the scope of the call has expired (the server is
\* shutting down) while a message is being processed, the delivery loop
\* starts no new host attempt.
C19_ShutdownStopsAttempts ==
    [][ shutdown => ~(dpc = "loop" /\ dpc' = "attempt") ]_vars

-----------------------------------------------------------------------------
(* Properties of the session callbacks (SpecSession) *)

DataCalled == lastData.conn # "none"

\* C9: a Data call on a session with no recipient fails with the precondition
\* error and hands nothing to Echo; Echo is called only with a session that
\* has at least one recipient.
C9_DataNeedsRecipient ==
    DataCalled =>
        /\ lastData.recipients = <<>> =>
              lastData.result = NoRecipientsError /\ lastData.echoMsgs = <<>>
        /\ lastData.echoMsgs # <<>> =>
              /\ Len(lastData.recipients) >= 1
              /\ \A i \in 1..Len(lastData.echoMsgs) :
                    Len(lastData.echoMsgs[i].Recipients) >= 1

\* Data after a Mail with no Rcpt following it
C9_Witness ==
    /\ DataCalled
    /\ lastData.envelopeFrom # <<>>
    /\ lastData.recipients = <<>>
    /\ lastData.result = NoRecipientsError
    /\ lastData.echoMsgs = <<>>

\* C10: when the session has a recipient and the payload is read, Data calls
\* Echo exactly once and fails exactly when Echo failed.
C10_DataMapsEchoResult ==
    (DataCalled /\ lastData.recipients # <<>> /\ ~lastData.readErr) =>
        /\ Len(lastData.echoMsgs) = 1
        /\ lastData.echoResult \in EchoOutcomes
        /\ (lastData.result = "nil") <=> (lastData.echoResult = "nil")
        /\ (lastData.result = "process echo reply") <=> (lastData.echoResult # "nil")

\* what a message holds for a reader: its recipients are read from the
\* session's array when they lie in it
Observed(m, s) ==
    [EnvelopeFrom |-> m.EnvelopeFrom,
     Recipients |-> IF m.shared
                    THEN [i \in 1..Len(m.Recipients) |->
                             IF i <= Len(s.storage) THEN s.storage[i] ELSE <<>>]
                    ELSE m.Recipients,
     Data |-> m.Data]

\* C20: the message a Data call handed to Echo holds the sender and the
\* recipients the session had at the call, and no later Mail, Rcpt, Reset or
\* Data on the session changes its sender, recipients or payload, although
\* Mail and Reset cut the session's recipients in place and Rcpt writes into
\* the same array.
C20_MessageImmutable ==
    [][ \A i \in 1..Len(lastData.echoMsgs) :
            LET m == lastData.echoMsgs[i]
            IN  /\ Observed(m, sessions[lastData.conn]).EnvelopeFrom = lastData.envelopeFrom
                /\ Observed(m, sessions[lastData.conn]).Recipients = lastData.recipients
                /\ Observed(m, sessions'[lastData.conn])
                      = Observed(m, sessions[lastData.conn])
      ]_vars

\* the message holds "o@h"; the session's array was cut and written again
\* and now holds "p@h" in its place
C20_Witness ==
    /\ DataCalled
    /\ Len(lastData.echoMsgs) = 1
    /\ lastData.echoMsgs[1].Recipients = << <<"o", "@", "h">> >>
    /\ sessions[lastData.conn].storage = << <<"p", "@", "h">> >>
    /\ sessions[lastData.conn].recipients = << <<"p", "@", "h">> >>

\* Echo failed and Data returned the failure, after one Echo call
C10_Witness ==
    /\ DataCalled
    /\ lastData.recipients # <<>>
    /\ ~lastData.readErr
    /\ lastData.echoResult = "delivery failed"
    /\ lastData.result = "process echo reply"
    /\ Len(lastData.echoMsgs) = 1

-----------------------------------------------------------------------------
(* Properties of deliverDirect (SpecDeliver) *)

\* deliverDirect got past the lookup
Resolved == dpc \in {"loop", "done"} /\ domain # <<>>

\* the lookup gave records to use
HaveRecords == Resolved /\ ~lookupErr /\ resolved # <<>>

AttemptedHosts == [i \in 1..Len(attempts) |-> attempts[i].host]

IsPrefix(p, q) == Len(p) <= Len(q) /\ SubSeq(q, 1, Len(p)) = p

\* C2 (as claimed): once a host has accepted the full message no further host
\* is attempted, so the reply is transferred to at most one host, also when
\* that host's session then fails to terminate gracefully.
C2_NoAttemptAfterTransfer ==
    \A i \in 1..Len(attempts) : \A j \in 1..Len(attempts) :
        (i < j) => ~attempts[i].transferred

\* the stable sort by Pref: each record goes after the records before it
\* whose Pref is not larger
RECURSIVE InsertByPref(_, _)
InsertByPref(sorted, rec) ==
    IF sorted = <<>> THEN <<rec>>
    ELSE IF rec.Pref < sorted[Len(sorted)].Pref
         THEN Append(InsertByPref(SubSeq(sorted, 1, Len(sorted) - 1), rec),
                     sorted[Len(sorted)])
         ELSE Append(sorted, rec)

RECURSIVE StableSortByPref(_)
StableSortByPref(records) ==
    IF records = <<>> THEN <<>>
    ELSE InsertByPref(StableSortByPref(SubSeq(records, 1, Len(records) - 1)),
                      records[Len(records)])

HostsOf(records) == [i \in 1..Len(records) |-> normalizeMXHost(records[i].Host)]

\* C5 (as claimed): the targets are the resolved host names in ascending
\* order of preference with records of equal preference in resolver order,
\* and hosts are attempted in that order.
C5_StableTargetOrder ==
    HaveRecords =>
        /\ targetHosts = HostsOf(StableSortByPref(resolved))
        /\ IsPrefix(AttemptedHosts, targetHosts)

IsArrangementOf(a, b) ==
    /\ Len(a) = Len(b)
    /\ \E p \in Permutations(1..Len(b)) : a = [i \in 1..Len(b) |-> b[p[i]]]

\* C5 (amended): the targets are the host names (trailing dot stripped) of
\* the resolved records arranged in ascending order of preference, the order
\* among records of equal preference being unspecified, and hosts are
\* attempted in exactly the order of the target list.
C5_TargetOrder ==
    HaveRecords =>
        /\ IsArrangementOf(mxRecords, resolved)
        /\ \A i \in 1..Len(mxRecords) : \A j \in 1..Len(mxRecords) :
              (i < j) => mxRecords[i].Pref <= mxRecords[j].Pref
        /\ targetHosts = HostsOf(mxRecords)
        /\ IsPrefix(AttemptedHosts, targetHosts)

\* records (20, "b"), (10, "a."): "a" was attempted, then "b"
C5_Witness ==
    /\ HaveRecords
    /\ resolved = <<[Pref |-> 20, Host |-> <<"b">>], [Pref |-> 10, Host |-> <<"a", ".">>]>>
    /\ AttemptedHosts = <<<<"a">>, <<"b">>>>

\* C6: when the lookup fails or returns no record the target list is the
\* recipient's domain alone and that host is attempted; a lookup failure is
\* the first recorded failure and so part of the aggregated error; delivery
\* then fails only when the attempt on the domain fails.
C6_LookupFallback ==
    (Resolved /\ (lookupErr \/ resolved = <<>>)) =>
        /\ targetHosts = <<domain>>
        /\ lookupErr => (attemptErrors # <<>> /\ attemptErrors[1] = MXLookupError)
        /\ ~lookupErr => \A i \in 1..Len(attemptErrors) : attemptErrors[i] # MXLookupError
        /\ dpc = "done" =>
              /\ deliverResult.kind \in {"nil", "context canceled", "delivery failed"}
              /\ deliverResult.kind = "nil" =>
                    AttemptedHosts = <<domain>> /\ attempts[1].err = NoErr
              /\ deliverResult.kind = "delivery failed" =>
                    /\ AttemptedHosts = <<domain>>
                    /\ attempts[1].err # NoErr
                    /\ lookupErr =>
                          deliverResult.errors
                              = <<MXLookupError, [host |-> domain, err |-> attempts[1].err]>>
              /\ deliverResult.kind = "context canceled" => attempts = <<>>

\* the lookup failed and the reply was delivered to the domain itself
C6_Witness ==
    /\ Resolved
    /\ lookupErr
    /\ dpc = "done"
    /\ deliverResult.kind = "nil"
    /\ AttemptedHosts = <<domain>>

\* the failure detail of every attempt made, in attempt order
AttemptDetails == [i \in 1..Len(attempts) |-> [host |-> attempts[i].host, err |-> attempts[i].err]]

NoHostSucceeded == \A i \in 1..Len(attempts) : attempts[i].err # NoErr

\* C11: when every target host was attempted and none succeeded, delivery
\* fails with the aggregated error, which is the lookup failure (if there was
\* one) followed by the failure detail of every attempted host in attempt
\* order; the aggregated error is returned in no other case.
C11_AggregatedError ==
    (Resolved /\ dpc = "done") =>
        /\ (AttemptedHosts = targetHosts /\ NoHostSucceeded) =>
              deliverResult.kind = "delivery failed"
        /\ deliverResult.kind = "delivery failed" =>
              /\ AttemptedHosts = targetHosts
              /\ NoHostSucceeded
              /\ deliverResult.errors =
                    (IF lookupErr THEN <<MXLookupError>> ELSE <<>>) \o AttemptDetails

\* C12: cancellation is checked between host attempts.  Once ctx is done
\* and the loop stands before a host, no attempt starts any more and
\* delivery returns the cancellation failure; an attempt in progress runs to
\* its end whatever ctx becomes; the cancellation failure is returned from
\* the check before a host and nowhere else.
C12_CancellationBetweenAttempts ==
    [][ /\ (ctxDone /\ dpc = "loop") =>
              /\ attempts' = attempts
              /\ dpc' \in {"loop", "done"}
              /\ (dpc' = "done" /\ hostIdx <= Len(targetHosts)) =>
                    deliverResult'.kind = "context canceled"
        /\ (dpc = "attempt") =>
              \/ dpc' = "attempt" /\ attempts' = attempts
              \/ Len(attempts') = Len(attempts) + 1
        /\ (deliverResult'.kind = "context canceled"
                /\ deliverResult.kind # "context canceled") =>
              (ctxDone /\ dpc = "loop" /\ hostIdx <= Len(targetHosts))
      ]_vars

\* ctx was done after the first host failed: the second was not attempted
C12_Witness ==
    /\ dpc = "done"
    /\ deliverResult.kind = "context canceled"
    /\ Len(targetHosts) = 2
    /\ Len(attempts) = 1

\* C17 (as claimed): within one delivery no host is attempted more than
\* once, also when the resolver names a host in more than one record.
C17_NoHostAttemptedTwice ==
    \A i \in 1..Len(attempts) : \A j \in 1..Len(attempts) :
        (i < j) => attempts[i].host # attempts[j].host

\* C18: for every host the encrypted dial comes first and the plain dial is
\* made exactly when the encrypted one failed; the host fails at the
\* connection stage exactly when both dials failed; a host attempt starts
\* only when the attempts on all hosts before it have ended.
C18_EncryptedFirstSequential ==
    /\ \A i \in 1..Len(attempts) :
          LET a == attempts[i]
          IN  /\ Len(a.dials) \in {1, 2}
              /\ a.dials[1].kind = "starttls"
              /\ (Len(a.dials) = 2) <=> ~a.dials[1].ok
              /\ Len(a.dials) = 2 => a.dials[2].kind = "plain"
              /\ (a.err = ConnectFailed) <=> (\A k \in 1..Len(a.dials) : ~a.dials[k].ok)
              /\ (a.err = ConnectFailed) => (Len(a.dials) = 2 /\ ~a.transferred)
    /\ dpc \in {"loop", "attempt"} => Len(attempts) = hostIdx - 1
    /\ dpc = "attempt" => hostIdx <= Len(targetHosts)
    /\ IsPrefix(AttemptedHosts, targetHosts)

\* the encrypted dial failed, the plain one succeeded and the reply was sent
C18_Witness ==
    /\ Len(attempts) = 2
    /\ attempts[1].err = ConnectFailed
    /\ attempts[2].dials = <<Dial("starttls", FALSE), Dial("plain", TRUE)>>
    /\ attempts[2].err = NoErr
    /\ dpc = "done"

\* two hosts were attempted and failed at different stages
C11_Witness ==
    /\ dpc = "done"
    /\ deliverResult.kind = "delivery failed"
    /\ ~lookupErr
    /\ Len(attempts) = 2
    /\ attempts[1].err # attempts[2].err
    /\ Len(deliverResult.errors) = 2

-----------------------------------------------------------------------------
(* Properties of Echo (SpecEcho) *)

NoRecipient == "unable to determine reply recipient"

\* Echo got past selectReplyRecipient, or ended in it
Selected == pc \notin {"parse", "select"} /\ ~msg.Data.parseErr

\* buildReplyMessage returned a message
Built == pc \in {"sign", "deliver"}
         \/ (pc = "done" /\ echoResult \in {"nil", "delivery failed", "sign reply"})

\* what a header yields as a reply target: its first address, <<>> when it is
\* absent, undecodable or holds no address
HeaderYield(list) ==
    IF list.err \/ \A i \in 1..Len(list.addrs) : list.addrs[i] = <<>> THEN <<>>
    ELSE list.addrs[CHOOSE i \in 1..Len(list.addrs) :
                        list.addrs[i] # <<>> /\ \A j \in 1..(i-1) : list.addrs[j] = <<>>]

EnvelopeYield == normalizeRecipientAddress(msg.EnvelopeFrom)
ReplyToYield  == HeaderYield(msg.Data.header["Reply-To"])
FromYield     == HeaderYield(msg.Data.header["From"])

\* C1: the reply recipient is the normalized envelope sender when that is
\* acceptable, whatever Reply-To and From hold; otherwise the first address of
\* Reply-To; otherwise the first address of From; a lower source is never
\* chosen while a higher one yields an address, and with no source yielding
\* one the selection fails.
C1_RecipientPrecedence ==
    Selected =>
        /\ EnvelopeYield # <<>> => recipient = EnvelopeYield /\ echoResult # NoRecipient
        /\ (EnvelopeYield = <<>> /\ ReplyToYield # <<>>) =>
               recipient = ReplyToYield /\ echoResult # NoRecipient
        /\ (EnvelopeYield = <<>> /\ ReplyToYield = <<>> /\ FromYield # <<>>) =>
               recipient = FromYield /\ echoResult # NoRecipient
        /\ (EnvelopeYield = <<>> /\ ReplyToYield = <<>> /\ FromYield = <<>>) =>
               pc = "done" /\ echoResult = NoRecipient

\* a rejected, non-empty envelope sender, with Reply-To and From both
\* yielding an address: Reply-To is chosen
C1_Witness ==
    /\ Selected
    /\ msg.EnvelopeFrom # <<>>
    /\ EnvelopeYield = <<>>
    /\ ReplyToYield # <<>>
    /\ FromYield # <<>>
    /\ FromYield # ReplyToYield
    /\ recipient = ReplyToYield

\* C3 (as claimed): whenever the extracted Message-ID is not empty it is the
\* last element of the extracted References.
C3_MessageIDIsLastReference ==
    (Built /\ meta.MessageID # "") =>
        /\ meta.References # <<>>
        /\ meta.References[Len(meta.References)] = meta.MessageID

\* C4: with Message-ID M and a References list R that does not hold M, the
\* composed reply has In-Reply-To = <<M>> and References = R followed by M.
C4_ThreadLinkage ==
    LET M == msg.Data.header["Message-ID"]
        R == msg.Data.header["References"]
    IN  (Built /\ ~M.err /\ M.id # "" /\ ~R.err
           /\ \A i \in 1..Len(R.ids) : R.ids[i] # M.id) =>
            /\ replyMessage.InReplyTo = <<M.id>>
            /\ replyMessage.References = R.ids \o <<M.id>>

\* Message-ID m1, References root p1: the reply's References are root p1 m1
C4_Witness ==
    /\ Built
    /\ msg.Data.header["Message-ID"].id = "m1"
    /\ msg.Data.header["References"].ids = <<"root", "p1">>
    /\ replyMessage.References = <<"root", "p1", "m1">>
    /\ replyMessage.InReplyTo = <<"m1">>

PreDeliveryErrors ==
    {"parse inbound message", NoRecipient, "read message part",
     "invalid configured from_address", "invalid recipient address",
     "generate message-id", "sign reply"}

\* C7: a failed step ends Echo with that step's error and no later step runs:
\* the delivery capability is never called for a message whose decoding,
\* recipient selection, body extraction, composition or signing failed, it is
\* called at most once, and Echo returns nil only if it returned nil.
C7_EchoShortCircuits ==
    LET parseFails  == msg.Data.parseErr
        selectFails == ~parseFails /\ EnvelopeYield = <<>> /\ ReplyToYield = <<>>
                          /\ FromYield = <<>>
        bodyFails   == ~parseFails /\ ~selectFails /\ msg.Data.partErr
        buildFails  == ~parseFails /\ ~selectFails /\ ~bodyFails
                          /\ (~ParseAddress(cfg.fromAddress).ok
                                \/ (Selected /\ ~ParseAddress(recipient).ok))
    IN  /\ pc # "done" => echoResult = "pending" /\ deliverCalls = <<>>
        /\ (pc = "done" /\ parseFails)  => echoResult = "parse inbound message"
        /\ (pc = "done" /\ selectFails) => echoResult = NoRecipient
        /\ (pc = "done" /\ bodyFails)   => echoResult = "read message part"
        /\ (pc = "done" /\ buildFails)  =>
               echoResult \in {"invalid configured from_address", "invalid recipient address"}
        /\ (parseFails \/ selectFails \/ bodyFails \/ buildFails) => deliverCalls = <<>>
        /\ echoResult \in PreDeliveryErrors => deliverCalls = <<>>
        /\ Len(deliverCalls) <= 1
        /\ deliverCalls # <<>> => pc = "done" /\ echoResult = deliverCalls[1].result
        /\ echoResult = "nil" => deliverCalls # <<>> /\ deliverCalls[1].result = "nil"

\* Echo ended in composition: the leniently accepted envelope sender "e@" was
\* selected, the composer rejected it, and nothing was delivered
C7_Witness ==
    /\ pc = "done"
    /\ echoResult = "invalid recipient address"
    /\ recipient = <<"e", "@">>
    /\ deliverCalls = <<>>

\* C8: with a signing configuration every message handed to the delivery
\* capability carries a signature and a signing failure ends Echo with nothing
\* delivered; without one every delivered message is unsigned.
C8_SignedIffConfigured ==
    /\ \A i \in 1..Len(deliverCalls) : deliverCalls[i].message.DKIMSignature = cfg.dkim
    /\ echoResult = "sign reply" => cfg.dkim /\ deliverCalls = <<>>

C8_Witness ==
    /\ cfg.dkim
    /\ deliverCalls # <<>>
    /\ deliverCalls[1].message.DKIMSignature

-----------------------------------------------------------------------------
(* Properties of body extraction and composition (SpecBody) *)

\* readReplyBody returned a body
BodyRead ==
    \/ pc \in {"build", "sign", "deliver"}
    \/ pc = "done" /\ echoResult \notin {"parse inbound message", NoRecipient,
                                          "read message part"}

IsPlainSegment(part) ==
    /\ ~isAttachment(part.ContentDisposition)
    /\ part.Body # <<>>
    /\ normalizeMediaType(part.ContentType) \in {"", "text/plain"}

IsHTMLSegment(part) ==
    /\ ~isAttachment(part.ContentDisposition)
    /\ part.Body # <<>>
    /\ normalizeMediaType(part.ContentType) = "text/html"

BodiesOf(parts) == [i \in 1..Len(parts) |-> parts[i].Body]

\* the parts of the inbound message that count as plain and as HTML content
PlainContent == BodiesOf(SelectSeq(msg.Data.parts, IsPlainSegment))

HTMLContent == BodiesOf(SelectSeq(msg.Data.parts, IsHTMLSegment))

\* C14: attachments contribute to neither accumulator; the non-empty parts of
\* type text/plain or of no type make Plain and those of type text/html make
\* HTML, each in part order and joined by a blank line; no other part
\* contributes.
C14_PartClassification ==
    BodyRead =>
        /\ PlainContent # <<>> => body.Plain = JoinSegments(PlainContent)
        /\ HTMLContent # <<>> => body.HTML = JoinSegments(HTMLContent)
        /\ (PlainContent # <<>> /\ HTMLContent = <<>>) => body.HTML = <<>>

\* an unlabeled part "Q", then the text/plain part "P"
C14_Witness ==
    /\ BodyRead
    /\ Len(msg.Data.parts) = 2
    /\ body.Plain = <<"Q", "\n", "\n", "P">>
    /\ body.HTML = <<>>

\* the raw body section was used as fallback
RawFallback == PlainContent = <<>> /\ HTMLContent = <<>>

\* C15 (as claimed): when the message has a non-empty part that is no
\* attachment and is text/plain, unlabeled or text/html, or a non-empty raw
\* body used as fallback, Plain is non-empty; with a non-empty HTML and no
\* plain part, Plain is the text derived from the HTML.
C15_PlainNonEmpty ==
    BodyRead =>
        /\ (PlainContent # <<>> \/ HTMLContent # <<>>
               \/ (RawFallback /\ msg.Data.rawBody # <<>>)) => body.Plain # <<>>
        /\ (body.HTML # <<>> /\ PlainContent = <<>>) => body.Plain = htmlToText(body.HTML)

\* C15 (amended): Plain is non-empty when the message has a non-empty
\* text/plain or unlabeled part that is no attachment, or a non-empty raw
\* body used as fallback for a message that is not text/html; with a
\* non-empty HTML and no plain part, Plain is the text derived from the HTML,
\* which is empty when the HTML holds nothing but markup and white space.
C15_PlainFromContent ==
    BodyRead =>
        /\ PlainContent # <<>> => body.Plain # <<>>
        /\ (RawFallback /\ msg.Data.rawBody # <<>>
               /\ normalizeMediaType(msg.Data.ContentType) # "text/html") =>
              body.Plain = msg.Data.rawBody
        /\ (body.HTML # <<>> /\ PlainContent = <<>>) => body.Plain = htmlToText(body.HTML)
        /\ body.Plain = <<>> => (PlainContent = <<>> /\ htmlToText(body.HTML) = <<>>)

\* the one part is "<b>H</b>&amp;f": Plain is "H &f"
C15_Witness ==
    /\ BodyRead
    /\ msg.Data.parts = <<HTMLPart>>
    /\ body.HTML = HTMLPart.Body
    /\ body.Plain = <<"H", " ", "&", "f">>

-----------------------------------------------------------------------------
(* The composed Subject (SpecEcho) *)

RePrefix == <<"r", "e", ":">>

\* C16 (as claimed): the reply Subject is the original subject s unchanged
\* when s starts with "re:" in any case, "Re: " followed by s when s is
\* non-empty and does not, and "Re:" when s is empty or absent.
C16_SubjectOfOriginal ==
    Built =>
        LET s == meta.Subject
        IN  replyMessage.Subject =
                IF s = <<>> THEN <<"R", "e", ":">>
                ELSE IF HasPrefix(ToLower(s), RePrefix) THEN s
                ELSE <<"R", "e", ":", " ">> \o s

\* C16 (amended): with t the original subject without its leading and
\* trailing white space, the reply Subject is t unchanged when t starts with
\* "re:" in any case, "Re: " followed by t when t is non-empty and does not,
\* and "Re:" when t is empty (the subject is absent, undecodable, empty or
\* white space only); a subject that has the prefix gets no second one.
C16_SubjectOfTrimmed ==
    Built =>
        LET t == TrimSpace(meta.Subject)
        IN  /\ replyMessage.Subject =
                  IF t = <<>> THEN <<"R", "e", ":">>
                  ELSE IF HasPrefix(ToLower(t), RePrefix) THEN t
                  ELSE <<"R", "e", ":", " ">> \o t
            /\ HasPrefix(ToLower(replyMessage.Subject), RePrefix)
            /\ HasPrefix(ToLower(t), RePrefix) => replyMessage.Subject = t

\* the subject " Hi " gives "Re: Hi"
C16_Witness ==
    /\ Built
    /\ meta.Subject = <<" ", "H", "i", " ">>
    /\ replyMessage.Subject = <<"R", "e", ":", " ", "H", "i">>

-----------------------------------------------------------------------------
(* The selected recipient in the later steps (SpecEcho) *)

\* C21 (as claimed): a recipient the selector returned is not rejected as an
\* invalid address by the composer, so a message with a valid Reply-To or
\* From address is not dropped for the recipient selected from its envelope
\* sender.
C21_SelectedRecipientAccepted ==
    (pc = "done" /\ Selected /\ recipient # <<>>
        /\ (ReplyToYield # <<>> \/ FromYield # <<>>)) =>
        echoResult # "invalid recipient address"

\* ---- the envelope a session hands over ----

\* the sender a sequence of callbacks leaves: that of the Mail it starts
\* with, none after a Reset or on a fresh session
SenderOfCalls(log) ==
    IF log # <<>> /\ log[1].op = "Mail" THEN log[1].arg ELSE <<>>

\* the Rcpt arguments of a sequence of callbacks, in order
RECURSIVE RcptsOfCalls(_)
RcptsOfCalls(log) ==
    IF log = <<>> THEN <<>>
    ELSE IF log[1].op = "Rcpt"
    THEN <<log[1].arg>> \o RcptsOfCalls(Tail(log))
    ELSE RcptsOfCalls(Tail(log))

\* a session holds what its own callbacks since the most recent Mail or
\* Reset say
EnvelopeFollowsCalls ==
    \A c \in Conns :
        /\ sessions[c].envelopeFrom = SenderOfCalls(calls[c])
        /\ sessions[c].recipients = RcptsOfCalls(calls[c])

\* a Data call hands Echo the envelope of the calls of its own connection
DataCarriesCalls ==
    lastData' # lastData =>
        \A i \in 1..Len(lastData'.echoMsgs) :
            /\ lastData'.echoMsgs[i].EnvelopeFrom = SenderOfCalls(calls[lastData'.conn])
            /\ lastData'.echoMsgs[i].Recipients = RcptsOfCalls(calls[lastData'.conn])

\* a callback of one connection leaves the sessions of the others alone
OtherSessionsUntouched ==
    \A c \in Conns :
        calls'[c] # calls[c] \/ sessions'[c] # sessions[c] =>
            \A d \in Conns \ {c} : sessions'[d] = sessions[d] /\ calls'[d] = calls[d]

\* C22: after any sequence of Mail, Rcpt, Reset and Data calls on a session,
\* the message a Data call hands to Echo carries the sender of the most
\* recent Mail (empty if a Reset came after it) and exactly the Rcpt
\* arguments received since the most recent Mail or Reset, in order; nothing
\* of an earlier transaction is in it, and the sessions of different
\* connections never see each other's envelope state.
C22_EnvelopePerTransaction ==
    /\ []EnvelopeFollowsCalls
    /\ [][DataCarriesCalls /\ OtherSessionsUntouched]_vars

\* C22 happens: after a Mail and a Reset on the first connection, a Data call
\* hands over both recipients given since the Reset, in the order given and
\* without a sender, while the second connection is in a transaction of its
\* own.
C22_Witness ==
    /\ lastData.conn = "c1"
    /\ Len(lastData.echoMsgs) = 1
    /\ lastData.echoMsgs[1].EnvelopeFrom = <<>>
    /\ lastData.echoMsgs[1].Recipients = << <<"p", "@", "h">>, <<"o", "@", "h">> >>
    /\ Len(calls["c1"]) = 3
    /\ calls["c1"][1].op = "Reset"
    /\ sessions["c2"].envelopeFrom = <<"f", "@", "x">>
    /\ sessions["c2"].recipients = << <<"q", "@", "h">> >>

====
